---- MODULE Spec2Model ----
(***************************************************************************)
(* A model of the command-line utilities of dockerApp/scriptsApp:          *)
(*   gitHubCli.ts     the repository helpers, the external-command wrapper *)
(*                    run() and the interactive menu;                      *)
(*   gowaApp.ts and   the two scaffolders (the second is the file stored   *)
(*   n8nApp.ts        as src/unnamed/part_000);                            *)
(*   cloudFlareApp.ts the DNS request wrapper and the record operations.   *)
(* The utilities share no state: each has its own specification over its   *)
(* own variables, and the variables of the others stay idle.               *)
(***************************************************************************)
EXTENDS Integers, Sequences, FiniteSets, TLC

VARIABLES
  \* ---- gitHubCli.ts, the list helpers (SpecRepos)
  repos,      \* the caller's array of repository descriptors
  repos0,     \* history: the array as it was handed to the helper
  months,     \* the month count given to the date filters, Absent before
  now,        \* Date.now(), in days
  calls,      \* the helpers called so far
  arg,        \* the visibility or the order given, "none" before
  result,     \* what filterByVisibility or sortByUpdated returned
  within,     \* what filterByMonthsAgo returned
  older,      \* what filterOlderThanMonths returned
  \* ---- gowaApp.ts and n8nApp.ts, the scaffolders (SpecScaffold)
  scKind,     \* the script run: "gowaApp" or "n8nApp"
  scArgs,     \* process.argv.slice(2)
  scPc,       \* where the script is
  scExit,     \* the exit status, Absent while the script runs
  scErr,      \* what console.error printed
  scOut,      \* what console.log printed
  fsDirs,     \* the directories of the filesystem (paths)
  fsFiles,    \* the files of the filesystem: path -> content
  fs0Dirs,    \* history: the directories when the script started
  fs0Files,   \* history: the files when the script started
  fsLog,      \* history: the mkdir and writeFile calls made, in order
  \* ---- cloudFlareApp.ts, the DNS wrapper (SpecCf)
  cfEnv,      \* whether CF_API_TOKEN and CF_ZONE_ID are both set
  cfCmd,      \* process.argv[2]
  cfArgs,     \* the arguments after it
  cfPc,       \* where the script is
  cfCall,     \* the cfRequest call awaiting its response, "none" otherwise
  cfPatch,    \* the patch main() hands to updateRecord
  cfHttp,     \* history: the HTTP requests issued, in order
  cfEnvelopes,\* history: the response envelopes parsed, in order
  cfReturned, \* history: how many cfRequest calls returned a result
  cfOut,      \* what console.log printed
  cfErr,      \* what console.error printed
  cfExit,     \* the exit status, Absent while the script runs
  \* ---- gitHubCli.ts, run() and the menu (SpecGh)
  ghCmd,      \* process.argv[2], Absent when there is none
  ghArgs,     \* the arguments after it
  ghPc,       \* where the script is
  ghChoice,   \* the menu line being served, "none" between two
  ghAnswers,  \* the answers to the prompts of the choice, so far
  ghStep,     \* the call run() serves: "resolve" (resolveRepo) or "main"
  ghOut,      \* what was printed since the last line was read
  ghLive,     \* history: the child processes spawned and not yet exited
  ghEnd,      \* history: what ended the script, "none" while it runs
  ghExit,     \* the exit status, Absent while the script runs
  runCmd,     \* run(): the argument vector of the child
  runInput,   \* run(): its input parameter, Absent when not given
  procStdin,  \* the child's stdin: "pipe" or "inherit"
  procWritten,\* what was written to the child's stdin, Absent if nothing
  procClosed, \* whether the pipe to the child's stdin was closed
  runPc,      \* how far run() is
  runOut,     \* the child's standard output, read to its end
  runErr,     \* the child's standard error, read to its end
  runCode,    \* the child's exit status, Absent until it has exited
  runValue,   \* what run() returned, Absent if nothing
  runError    \* the message of the error run() threw, Absent if none

reposVars == <<repos, repos0, months, now, calls, arg, result, within, older>>
scVars == <<scKind, scArgs, scPc, scExit, scErr, scOut,
            fsDirs, fsFiles, fs0Dirs, fs0Files, fsLog>>

cfVars == <<cfEnv, cfCmd, cfArgs, cfPc, cfCall, cfPatch, cfHttp, cfEnvelopes,
            cfReturned, cfOut, cfErr, cfExit>>

menuVars == <<ghCmd, ghArgs, ghPc, ghChoice, ghAnswers, ghStep, ghOut, ghLive,
              ghEnd, ghExit>>
runVars == <<runCmd, runInput, procStdin, procWritten, procClosed, runPc,
             runOut, runErr, runCode, runValue, runError>>
ghVars == <<menuVars, runVars>>

vars == <<reposVars, scVars, cfVars, ghVars>>

notRepos == <<scVars, cfVars, ghVars>>
notSc == <<reposVars, cfVars, ghVars>>
notCf == <<reposVars, scVars, ghVars>>
notGh == <<reposVars, scVars, cfVars>>

(***************************************************************************)
(* JavaScript values are one-field records, the field naming the kind:     *)
(* [undefined |-> TRUE], [str |-> characters], [iso |-> day] for the ISO    *)
(* string of an instant, [num |-> n], [nan |-> TRUE].                      *)
(***************************************************************************)
\* A missing property of an object (undefined).
Absent == [undefined |-> TRUE]

\* The number NaN: every comparison with it is false.
NaN == [nan |-> TRUE]

Null == [null |-> TRUE]

Bool(b) == [bool |-> b]

Num(n) == [num |-> n]
Str(s) == [str |-> s]

(***************************************************************************)
(* The variables of a utility that is not the one run.                     *)
(***************************************************************************)
\* The list helpers, not called.
ReposIdle ==
  /\ repos = <<>> /\ repos0 = <<>> /\ months = Absent /\ now = 0
  /\ calls = {} /\ arg = "none" /\ result = <<>> /\ within = <<>> /\ older = <<>>

\* The scaffolders, not run.
ScIdle ==
  /\ scKind = "none" /\ scArgs = <<>> /\ scPc = "idle" /\ scExit = Absent
  /\ scErr = <<>> /\ scOut = <<>> /\ fsDirs = {} /\ fsFiles = <<>>
  /\ fs0Dirs = {} /\ fs0Files = <<>> /\ fsLog = <<>>

\* The DNS wrapper, not run.
CfIdle ==
  /\ cfEnv = FALSE /\ cfCmd = "none" /\ cfArgs = <<>> /\ cfPc = "idle"
  /\ cfCall = "none" /\ cfPatch = <<>> /\ cfHttp = <<>> /\ cfEnvelopes = <<>>
  /\ cfReturned = 0 /\ cfOut = <<>> /\ cfErr = <<>> /\ cfExit = Absent

\* run() with no call in progress.
RunIdle ==
  /\ runCmd = <<>> /\ runInput = Absent /\ procStdin = "none" /\ procWritten = Absent
  /\ procClosed = FALSE /\ runPc = "idle" /\ runOut = <<>> /\ runErr = <<>>
  /\ runCode = Absent /\ runValue = Absent /\ runError = Absent

\* The GitHub helper, not run.
GhIdle ==
  /\ ghCmd = Absent /\ ghArgs = <<>> /\ ghPc = "idle" /\ ghChoice = "none"
  /\ ghAnswers = <<>> /\ ghStep = "none" /\ ghOut = <<>> /\ ghLive = 0
  /\ ghEnd = "none" /\ ghExit = Absent
  /\ RunIdle

(***************************************************************************)
(* Bounds of the model.                                                    *)
(***************************************************************************)
MaxRepos == 3
MaxMonths == 2
MaxPatchArgs == 2
MaxStrLen == 3
MaxExitCode == 1

\* The sequences over S of length n at most.
RECURSIVE SeqsUpTo(_, _)
SeqsUpTo(S, n) ==
  IF n = 0 THEN { <<>> }
  ELSE LET shorter == SeqsUpTo(S, n - 1)
       IN shorter \cup { Append(s, x) : s \in {t \in shorter : Len(t) = n - 1}, x \in S }

(***************************************************************************)
(* gitHubCli.ts: repository descriptors.  Strings are sequences of         *)
(* characters, so that toLowerCase() is a conversion and not the identity. *)
(* Time is counted in days (86,400,000 ms): the values of Date.now() in    *)
(* milliseconds do not fit TLC's integers.                                 *)
(***************************************************************************)
UpperChars == <<"A","B","C","E","I","L","N","P","R","T","U","V">>
LowerChars == <<"a","b","c","e","i","l","n","p","r","t","u","v">>

toLowerCaseChar(c) ==
  IF \E i \in DOMAIN UpperChars : UpperChars[i] = c
  THEN LowerChars[CHOOSE i \in DOMAIN UpperChars : UpperChars[i] = c]
  ELSE c

\* String.prototype.toLowerCase
toLowerCase(s) == [i \in DOMAIN s |-> toLowerCaseChar(s[i])]

\* r.visibility?.toLowerCase(): undefined when the property is missing
VisibilityLower(r) ==
  IF r.visibility = Absent THEN Absent ELSE Str(toLowerCase(r.visibility.str))

public == Str(<<"p","u","b","l","i","c">>)
private == Str(<<"p","r","i","v","a","t","e">>)

\* The visibility values an entry may carry: as gh prints them (upper case),
\* in mixed case, and none.
Visibilities ==
  { Str(<<"P","U","B","L","I","C">>), Str(<<"P","r","i","v","a","t","e">>), Absent }

\* updatedAt: the ISO string of an instant (held as its day number), or none.
DaysPerMonth == 30
NowDay == 60
Stamps == { [iso |-> d] : d \in {29, 30, 31} } \cup {Absent}

Repo == [visibility : Visibilities, updatedAt : Stamps]

\* new Date(v).getTime(): NaN for undefined, else the instant of the string
DateGetTime(v) == IF v = Absent THEN NaN ELSE Num(v.iso)

\* a >= b and a < b on numbers: false when either is NaN
NumGeq(a, b) == a # NaN /\ b # NaN /\ a.num >= b.num
NumLt(a, b) == a # NaN /\ b # NaN /\ a.num < b.num

\* a truthy updatedAt: a non-empty string
Truthy(v) == v # Absent

\* Array.prototype.filter is SelectSeq: the elements that pass the test, in
\* their order, in a new array.

filterByVisibilityNoLower(rs, visibility) ==
  LET Test(r) == r.visibility = visibility IN SelectSeq(rs, Test)

filterByVisibility(rs, visibility) ==
  LET Test(r) == VisibilityLower(r) = visibility IN SelectSeq(rs, Test)

\* now - months * 30 * 24 * 60 * 60 * 1000, in days
Limit(t, m) == Num(t - m * DaysPerMonth)

filterByMonthsAgoStrict(rs, m, t) ==
  LET Test(r) == NumLt(Limit(t, m), DateGetTime(r.updatedAt)) IN SelectSeq(rs, Test)

filterByMonthsAgo(rs, m, t) ==
  LET Test(r) == NumGeq(DateGetTime(r.updatedAt), Limit(t, m)) IN SelectSeq(rs, Test)

filterOlderThanMonths(rs, m, t) ==
  LET Test(r) == Truthy(r.updatedAt) /\ NumLt(DateGetTime(r.updatedAt), Limit(t, m))
  IN SelectSeq(rs, Test)

\* A comparator that ignores the order asked for.
CompareAscending(a, b, order) ==
  LET ta == DateGetTime(a.updatedAt)
      tb == DateGetTime(b.updatedAt)
  IN IF ta = NaN \/ tb = NaN THEN NaN ELSE Num(ta.num - tb.num)

\* The comparator of sortByUpdated: a difference of two getTime() values,
\* NaN when either is NaN.
Compare(a, b, order) ==
  LET ta == DateGetTime(a.updatedAt)
      tb == DateGetTime(b.updatedAt)
  IN IF ta = NaN \/ tb = NaN THEN NaN
     ELSE IF order = "desc" THEN Num(tb.num - ta.num) ELSE Num(ta.num - tb.num)

\* Array.prototype.sort with a consistent comparator is a stable sort:
\* x goes behind every element that does not compare greater than x.
RECURSIVE InsertSorted(_, _, _)
InsertSorted(s, x, order) ==
  IF s = <<>> THEN <<x>>
  ELSE IF Compare(Head(s), x, order).num > 0 THEN <<x>> \o s
       ELSE <<Head(s)>> \o InsertSorted(Tail(s), x, order)

RECURSIVE StableSort(_, _)
StableSort(s, order) ==
  IF s = <<>> THEN <<>>
  ELSE InsertSorted(StableSort(SubSeq(s, 1, Len(s) - 1), order), s[Len(s)], order)

\* The rearrangements of a sequence.
Rearrangements(s) ==
  { [i \in DOMAIN s |-> s[p[i]]] :
      p \in { q \in [DOMAIN s -> DOMAIN s] : \A i, j \in DOMAIN s : i # j => q[i] # q[j] } }

\* A comparator that returns NaN for some pair is not a consistent comparator,
\* and the order Array.prototype.sort produces is then implementation-defined.
ConsistentComparator(s) == \A i \in DOMAIN s : s[i].updatedAt # Absent

SortOutcomes(s, order) ==
  IF ConsistentComparator(s) THEN { StableSort(s, order) } ELSE Rearrangements(s)

(***************************************************************************)
(* gowaApp.ts and n8nApp.ts: the scaffolders.                              *)
(* A path is the sequence of its components.  A text is a sequence of      *)
(* pieces, one per literal stretch or interpolation of the template, and a *)
(* piece is a sequence of strings (`${APP_NAME}_net` has two).             *)
(***************************************************************************)
\* args.indexOf(key): the first index holding key, 0 when there is none
\* (indices here start at 1)
IndexOf(args, key) ==
  IF \E i \in DOMAIN args : args[i] = key
  THEN CHOOSE i \in DOMAIN args : args[i] = key /\ \A j \in 1..(i - 1) : args[j] # key
  ELSE 0

\* getArg: the argument after the flag; null without the flag, undefined
\* when the flag is the last argument
getArg(args, key) ==
  LET i == IndexOf(args, key)
  IN IF i # 0 THEN (IF i + 1 \in DOMAIN args THEN Str(args[i + 1]) ELSE Absent)
     ELSE Null

\* !v for what getArg returns
Falsy(v) == v \in {Null, Absent, Str("")}

APP_NAME == getArg(scArgs, "--name")
\* HOST_PORT in gowaApp.ts, PORT in n8nApp.ts
HOST_PORT == getArg(scArgs, "--port")

HOME == <<"home", "user">>

\* path.join: the components in order, "." and "" dropped, ".." taking the
\* component before it away
RECURSIVE PathJoin(_, _)
PathJoin(done, todo) ==
  IF todo = <<>> THEN done
  ELSE LET c == Head(todo)
       IN IF c = "." \/ c = "" THEN PathJoin(done, Tail(todo))
          ELSE IF c = ".." /\ done # <<>>
               THEN PathJoin(SubSeq(done, 1, Len(done) - 1), Tail(todo))
               ELSE PathJoin(Append(done, c), Tail(todo))

BASE_DIR == PathJoin(HOME, <<"dockerApp", scKind, APP_NAME.str>>)

CONTAINER_PORT == 3000

Lit(t) == [lit |-> t]
Hole(h) == [hole |-> h]

\* The values the template literals interpolate.
TemplateEnv(h) ==
  CASE h = "APP_NAME" -> <<APP_NAME.str>>
    [] h = "VOLUME_NAME" -> <<APP_NAME.str>>
    [] h = "NETWORK_NAME" -> <<APP_NAME.str, "_net">>
    [] h = "HOST_PORT" -> <<HOST_PORT.str>>
    [] h = "PORT" -> <<HOST_PORT.str>>
    [] h = "CONTAINER_PORT" -> <<ToString(CONTAINER_PORT)>>

\* A template literal evaluated: each interpolation replaced by its value.
Render(tpl) ==
  [i \in DOMAIN tpl |-> IF "hole" \in DOMAIN tpl[i] THEN TemplateEnv(tpl[i].hole)
                        ELSE <<tpl[i].lit>>]

\* gowaApp.ts, composeContent
GowaComposeTemplate ==
  << Lit("name: "), Hole("APP_NAME"),
     Lit("\n\nservices:\n  whatsapp:\n    image: aldinokemal2104/go-whatsapp-web-multidevice\n    container_name: "),
     Hole("APP_NAME"),
     Lit("\n    restart: always\n\n    ports:\n      - \""),
     Hole("HOST_PORT"), Lit(":"), Hole("CONTAINER_PORT"),
     Lit("\"\n\n    volumes:\n      - "), Hole("VOLUME_NAME"),
     Lit(":/app/storages\n\n    command:\n      - rest\n      - --basic-auth=admin:admin\n      - --port="),
     Hole("CONTAINER_PORT"),
     Lit("\n      - --debug=true\n      - --os=Chrome\n      - --account-validation=false\n\nvolumes:\n  "),
     Hole("VOLUME_NAME"), Lit(":\n") >>

\* n8nApp.ts, envContent
N8nEnvTemplate ==
  << Lit("# ===== CORE =====\nN8N_HOST=0.0.0.0\nN8N_PORT="), Hole("PORT"),
     Lit("\nN8N_PROTOCOL=http\nN8N_LISTEN_ADDRESS=0.0.0.0\n\n# ===== AUTH =====\nN8N_BASIC_AUTH_ACTIVE=true\n# ===== PERMISSION =====\nN8N_ENFORCE_SETTINGS_FILE_PERMISSIONS=true\n\n# ===== TIMEZONE =====\nTZ=Asia/Jakarta\n") >>

\* n8nApp.ts, composeContent (\${N8N_PORT} is escaped: it stays as written)
N8nComposeTemplate ==
  << Lit("name: "), Hole("APP_NAME"),
     Lit("\n\nservices:\n  n8n:\n    image: n8nio/n8n:latest\n    container_name: "),
     Hole("APP_NAME"),
     Lit("\n    restart: unless-stopped\n\n    ports:\n      - \"${N8N_PORT}:5678\"\n\n    env_file:\n      - .env\n\n    volumes:\n      - "),
     Hole("VOLUME_NAME"),
     Lit(":/home/node/.n8n\n\n    networks:\n      - "), Hole("NETWORK_NAME"),
     Lit("\n\nnetworks:\n  "), Hole("NETWORK_NAME"), Lit(":\n    name: "),
     Hole("NETWORK_NAME"),
     Lit("\n    driver: bridge\n\nvolumes:\n  "), Hole("VOLUME_NAME"), Lit(":\n") >>

\* composeContent with the environment file's text in its place
composeContentMixedUp ==
  IF scKind = "gowaApp" THEN Render(N8nComposeTemplate) ELSE Render(N8nEnvTemplate)

composeContent ==
  IF scKind = "gowaApp" THEN Render(GowaComposeTemplate) ELSE Render(N8nComposeTemplate)

envContent == Render(N8nEnvTemplate)

\* The directories a recursive mkdir of p makes sure of: p and its ancestors.
Ancestors(p) == { SubSeq(p, 1, n) : n \in 1..Len(p) }

Parent(p) == SubSeq(p, 1, Len(p) - 1)

\* existsSync
existsSync(p) == p \in fsDirs \/ p \in DOMAIN fsFiles

\* The state of the filesystem after writeFile(p, text).
Written(p, text) ==
  [q \in DOMAIN fsFiles \cup {p} |-> IF q = p THEN text ELSE fsFiles[q]]

(***************************************************************************)
(* The filesystem a scaffolder may find: the home directory, and under it  *)
(* any part of dockerApp/<kind>/<name>, a project directory empty or with  *)
(* a compose.yaml of an earlier run.                                       *)
(***************************************************************************)
Kinds == {"gowaApp", "n8nApp"}
ProjectNames == {"app1", "app2"}
DockerApp == HOME \o <<"dockerApp">>
KindDir(k) == DockerApp \o <<k>>
ProjectDir(k, n) == KindDir(k) \o <<n>>
ProjectDirs == { ProjectDir(k, n) : k \in Kinds, n \in ProjectNames }
OldText == << <<"# written by an earlier run\n">> >>

InitialDirSets ==
  { Ancestors(HOME) \cup D :
      D \in { E \in SUBSET ({DockerApp} \cup {KindDir(k) : k \in Kinds} \cup ProjectDirs) :
                \A p \in E : Parent(p) \in E \cup {HOME} } }

InitialFileSets(D) ==
  { [f \in { p \o <<"compose.yaml">> : p \in P } |-> OldText] : P \in SUBSET (D \cap ProjectDirs) }

\* The command lines tried: the flags in either order, one or both missing,
\* a flag with nothing after it, and a name that is the next flag.
ArgNames == {"app1", "app2", "..", ""}
ArgPorts == {"3002", "3000", ""}
CommandLines ==
  { <<>> }
  \cup { <<"--name", n>> : n \in ArgNames }
  \cup { <<"--port", q>> : q \in ArgPorts }
  \cup { <<"--name", n, "--port", q>> : n \in ArgNames, q \in ArgPorts }
  \cup { <<"--port", q, "--name", n>> : n \in ArgNames, q \in ArgPorts }
  \cup { <<"--name", n, "--port">> : n \in ArgNames }
  \cup { <<"--name", "--port", q>> : q \in ArgPorts }

InitScaffold ==
  /\ ReposIdle
  /\ CfIdle
  /\ GhIdle
  /\ scKind \in Kinds
  /\ scArgs \in CommandLines
  /\ scPc = "start"
  /\ scExit = Absent
  /\ scErr = <<>>
  /\ scOut = <<>>
  /\ fsDirs \in InitialDirSets
  /\ fsFiles \in InitialFileSets(fsDirs)
  /\ fs0Dirs = fsDirs
  /\ fs0Files = fsFiles
  /\ fsLog = <<>>

\* process.exit(code)
ScExitWith(code) == scPc' = "exited" /\ scExit' = Num(code)

\* if (!APP_NAME || !HOST_PORT) { console.error(usage); process.exit(1) }
ScValidate ==
  /\ scPc = "start"
  /\ IF Falsy(APP_NAME) \/ Falsy(HOST_PORT)
     THEN /\ scErr' = <<"Usage:">>
          /\ ScExitWith(1)
     ELSE /\ scPc' = "check"
          /\ UNCHANGED <<scErr, scExit>>
  /\ UNCHANGED <<scKind, scArgs, scOut, fsDirs, fsFiles, fs0Dirs, fs0Files, fsLog>>
  /\ UNCHANGED notSc

\* The check left out: the script goes on whatever is there.
ScCheckExistsSkipped ==
  /\ scPc = "check"
  /\ scPc' = "mkdir"
  /\ UNCHANGED <<scErr, scExit>>
  /\ UNCHANGED <<scKind, scArgs, scOut, fsDirs, fsFiles, fs0Dirs, fs0Files, fsLog>>
  /\ UNCHANGED notSc

\* if (existsSync(BASE_DIR)) { console.error(...); process.exit(1) }
ScCheckExists ==
  /\ scPc = "check"
  /\ IF existsSync(BASE_DIR)
     THEN /\ scErr' = <<"Folder already exists: ", BASE_DIR>>
          /\ ScExitWith(1)
     ELSE /\ scPc' = "mkdir"
          /\ UNCHANGED <<scErr, scExit>>
  /\ UNCHANGED <<scKind, scArgs, scOut, fsDirs, fsFiles, fs0Dirs, fs0Files, fsLog>>
  /\ UNCHANGED notSc

\* await mkdir(BASE_DIR, { recursive: true })
ScMkdir ==
  /\ scPc = "mkdir"
  /\ fsDirs' = fsDirs \cup Ancestors(BASE_DIR)
  /\ fsLog' = Append(fsLog, [op |-> "mkdir", path |-> BASE_DIR])
  /\ scPc' = IF scKind = "n8nApp" THEN "writeEnv" ELSE "writeCompose"
  /\ UNCHANGED <<scKind, scArgs, scExit, scErr, scOut, fsFiles, fs0Dirs, fs0Files>>
  /\ UNCHANGED notSc

\* writeFile fails when the directory of the file is missing.
CanWrite(p) == Parent(p) \in fsDirs

\* n8nApp.ts: await writeFile(path.join(BASE_DIR, ".env"), envContent)
ScWriteEnv ==
  /\ scPc = "writeEnv"
  /\ CanWrite(BASE_DIR \o <<".env">>)
  /\ fsFiles' = Written(BASE_DIR \o <<".env">>, envContent)
  /\ fsLog' = Append(fsLog, [op |-> "writeFile", path |-> BASE_DIR \o <<".env">>])
  /\ scPc' = "writeCompose"
  /\ UNCHANGED <<scKind, scArgs, scExit, scErr, scOut, fsDirs, fs0Dirs, fs0Files>>
  /\ UNCHANGED notSc

\* await writeFile(path.join(BASE_DIR, "compose.yaml"), composeContent)
ScWriteCompose ==
  /\ scPc = "writeCompose"
  /\ CanWrite(BASE_DIR \o <<"compose.yaml">>)
  /\ fsFiles' = Written(BASE_DIR \o <<"compose.yaml">>, composeContent)
  /\ fsLog' = Append(fsLog, [op |-> "writeFile", path |-> BASE_DIR \o <<"compose.yaml">>])
  /\ scPc' = "report"
  /\ UNCHANGED <<scKind, scArgs, scExit, scErr, scOut, fsDirs, fs0Dirs, fs0Files>>
  /\ UNCHANGED notSc

\* The console.log lines, after which the script ends with status 0.
ScReport ==
  /\ scPc = "report"
  /\ scOut' = <<"project created", APP_NAME.str, HOST_PORT.str, BASE_DIR>>
  /\ scPc' = "done"
  /\ scExit' = Num(0)
  /\ UNCHANGED <<scKind, scArgs, scErr, fsDirs, fsFiles, fs0Dirs, fs0Files, fsLog>>
  /\ UNCHANGED notSc

\* A mkdir or writeFile that fails (no permission, no space, no directory)
\* rejects; nothing catches it and the script ends there with status 1.
ScFsFailure ==
  /\ scPc \in {"mkdir", "writeEnv", "writeCompose"}
  /\ scPc' = "crashed"
  /\ scExit' = Num(1)
  /\ UNCHANGED <<scKind, scArgs, scErr, scOut, fsDirs, fsFiles, fs0Dirs, fs0Files, fsLog>>
  /\ UNCHANGED notSc

NextScaffold ==
  \/ ScValidate
  \/ ScCheckExists
  \/ ScMkdir
  \/ ScWriteEnv
  \/ ScWriteCompose
  \/ ScReport
  \/ ScFsFailure

SpecScaffold == InitScaffold /\ [][NextScaffold]_vars

(***************************************************************************)
(* Properties of the scaffolders.                                          *)
(***************************************************************************)
\* Both --name and --port were given a non-empty value.
ValidArgs == ~Falsy(APP_NAME) /\ ~Falsy(HOST_PORT)

\* p lies below the directory d.
Below(p, d) == Len(p) > Len(d) /\ SubSeq(p, 1, Len(d)) = d

\* C1: for either scaffolder and any non-empty name and port, when the
\* target directory exists as the script starts, the script makes no mkdir
\* and no writeFile call, the filesystem stays as it was, and the script
\* can only end by reporting the failure with exit status 1.
C1_ExistingTargetUntouched ==
  (scPc # "idle" /\ ValidArgs /\ BASE_DIR \in fs0Dirs) =>
    /\ fsLog = <<>>
    /\ fsDirs = fs0Dirs
    /\ fsFiles = fs0Files
    /\ scPc \in {"start", "check", "exited"}
    /\ scPc = "exited" =>
         /\ scExit = Num(1)
         /\ scErr = <<"Folder already exists: ", BASE_DIR>>
         /\ scOut = <<>>

\* The n8n scaffolder has ended on a target directory that was there, with
\* the compose.yaml of an earlier run in it.
C1_Witness ==
  /\ scKind = "n8nApp"
  /\ scPc = "exited"
  /\ ValidArgs
  /\ BASE_DIR \in fs0Dirs
  /\ (BASE_DIR \o <<"compose.yaml">>) \in DOMAIN fs0Files

\* The text is the template with the name and the port put in literally.
Substituted(text, tpl) ==
  /\ Len(text) = Len(tpl)
  /\ \A i \in DOMAIN tpl :
       IF "lit" \in DOMAIN tpl[i] THEN text[i] = <<tpl[i].lit>>
       ELSE text[i] =
              CASE tpl[i].hole \in {"APP_NAME", "VOLUME_NAME"} -> <<APP_NAME.str>>
                [] tpl[i].hole = "NETWORK_NAME" -> <<APP_NAME.str, "_net">>
                [] tpl[i].hole \in {"HOST_PORT", "PORT"} -> <<HOST_PORT.str>>
                [] tpl[i].hole = "CONTAINER_PORT" -> <<"3000">>

Mentions(text, value) == \E i \in DOMAIN text : text[i] = <<value>>

ExpectedFiles ==
  IF scKind = "gowaApp" THEN { BASE_DIR \o <<"compose.yaml">> }
  ELSE { BASE_DIR \o <<".env">>, BASE_DIR \o <<"compose.yaml">> }

\* C2: for any non-empty name and port whose target directory is not there,
\* every writeFile call comes after the mkdir of the target directory and
\* writes into it, and a run that completes leaves the directory present,
\* holding exactly compose.yaml (gowaApp) or .env and compose.yaml (n8nApp)
\* and nothing else, the texts being the templates with the name and the
\* port put in.
C2_ScaffoldCreatesExpectedFiles ==
  (scPc # "idle" /\ ValidArgs /\ BASE_DIR \notin fs0Dirs) =>
    /\ \A i \in DOMAIN fsLog :
         fsLog[i].op = "writeFile" =>
           /\ i > 1
           /\ fsLog[1] = [op |-> "mkdir", path |-> BASE_DIR]
           /\ Parent(fsLog[i].path) = BASE_DIR
    /\ scPc = "done" =>
         /\ scExit = Num(0)
         /\ BASE_DIR \in fsDirs
         /\ { f \in DOMAIN fsFiles : Below(f, BASE_DIR) } = ExpectedFiles
         /\ { d \in fsDirs : Below(d, BASE_DIR) } = {}
         /\ LET compose == fsFiles[BASE_DIR \o <<"compose.yaml">>]
            IN /\ Mentions(compose, APP_NAME.str)
               /\ IF scKind = "gowaApp"
                  THEN /\ Substituted(compose, GowaComposeTemplate)
                       /\ Mentions(compose, HOST_PORT.str)
                  ELSE /\ Substituted(compose, N8nComposeTemplate)
                       /\ Substituted(fsFiles[BASE_DIR \o <<".env">>], N8nEnvTemplate)
                       /\ Mentions(fsFiles[BASE_DIR \o <<".env">>], HOST_PORT.str)

\* The n8n scaffolder has completed where not even ~/dockerApp was there.
C2_Witness ==
  /\ scKind = "n8nApp"
  /\ scPc = "done"
  /\ DockerApp \notin fs0Dirs
  /\ BASE_DIR = ProjectDir("n8nApp", "app1")
  /\ ExpectedFiles \subseteq DOMAIN fsFiles

(***************************************************************************)
(* cloudFlareApp.ts: the DNS wrapper.                                      *)
(* An object is a function from its keys to values; a key whose value is   *)
(* undefined is in the domain with the value Absent.  A command-line       *)
(* argument of `update` is the sequence of its parts between the "=".      *)
(***************************************************************************)
ZONE_ID == "zone1"

RecordFields == {"type", "name", "content", "ttl", "proxied"}

\* The records the provider may hold: proxied is optional in DNSRecord.
RecordIds == {"abc123", "def456"}
FullRecords ==
  [ id : {Str(i) : i \in RecordIds}, type : {Str("A"), Str("TXT")},
    name : {Str("test.domain.com")}, content : {Str("1.1.1.1")},
    ttl : {Num(1), Num(300)}, proxied : {Bool(TRUE), Bool(FALSE)} ]
WithoutKey(o, k) == [f \in DOMAIN o \ {k} |-> o[f]]
Records == FullRecords \cup { WithoutKey(r, "proxied") : r \in FullRecords }

\* o.k, undefined when the object has no such key
Get(o, k) == IF k \in DOMAIN o THEN o[k] ELSE Absent

\* { ...a, ...b }: the keys of both, b's value where both have the key
Spread(a, b) ==
  [k \in DOMAIN a \cup DOMAIN b |-> IF k \in DOMAIN b THEN b[k] ELSE a[k]]

\* JSON.stringify of an object: the keys whose value is undefined are left out
JSONstringify(o) == [k \in { f \in DOMAIN o : o[f] # Absent } |-> o[k]]

\* a ?? b
Coalesce(a, b) == IF a \in {Absent, Null} THEN b ELSE a

\* The arguments of `update` after the id, as split('=') sees them.
PatchArgs ==
  { <<"content", "8.8.8.8">>, <<"proxied", "true">>, <<"proxied", "false">>,
    <<"ttl", "300">>, <<"type", "TXT">>, <<"content">> }

\* const [k, val] = v.split('='), "true" and "false" made booleans
PatchEntry(v) ==
  LET k == v[1]
      val == IF Len(v) >= 2 THEN Str(v[2]) ELSE Absent
  IN <<k, IF val = Str("true") THEN Bool(TRUE)
          ELSE IF val = Str("false") THEN Bool(FALSE) ELSE val>>

\* Object.fromEntries: of two entries with one key the later one stays
RECURSIVE ObjectFromEntries(_)
ObjectFromEntries(es) ==
  IF es = <<>> THEN <<>>
  ELSE LET e == es[Len(es)]
           before == ObjectFromEntries(SubSeq(es, 1, Len(es) - 1))
       IN [k \in DOMAIN before \cup {e[1]} |-> IF k = e[1] THEN e[2] ELSE before[k]]

ParsePatch(args) == ObjectFromEntries([i \in DOMAIN args |-> PatchEntry(args[i])])

RecordPath(id) == <<"zones", ZONE_ID, "dns_records", id>>
ZonePath == <<"zones", ZONE_ID, "dns_records">>

\* fetch(API + path, { ...options, headers })
Request(method, path, body) == [method |-> method, path |-> path, body |-> body]

\* updateRecord's payload with the spread of the patch first: the record
\* fetched wins over the patch
PayloadPatchFirst(current, patch) ==
  Spread(patch,
         [ type |-> Get(current, "type"), name |-> Get(current, "name"),
           content |-> Get(current, "content"), ttl |-> Get(current, "ttl"),
           proxied |-> Coalesce(Get(current, "proxied"), Bool(FALSE)) ])

\* updateRecord's payload: the five fields of the record fetched, proxied
\* false when it has none, the patch spread over them
Payload(current, patch) ==
  Spread([ type |-> Get(current, "type"), name |-> Get(current, "name"),
           content |-> Get(current, "content"), ttl |-> Get(current, "ttl"),
           proxied |-> Coalesce(Get(current, "proxied"), Bool(FALSE)) ],
         patch)

\* cfRequest without its check of the success flag
cfRequestExitsNever(envelope) == FALSE

\* cfRequest: if (!json.success) { console.error(...); process.exit(1) }
cfRequestExits(envelope) == envelope.success \in {Bool(FALSE), Absent}

\* The envelopes the provider may answer a call with: a failure with its
\* errors, a success with a result, a body without the flag.
ResultsFor(call, http) ==
  CASE call = "list.get" -> { [list |-> <<>>] } \cup { [list |-> <<r>>] : r \in Records }
    [] call = "update.get" -> { r \in Records : r.id = Str(http[Len(http)].path[4]) }
    [] call = "add.post" -> { r \in FullRecords : r.id = Str("abc123") /\ r.ttl = Num(1) }
    [] call = "update.put" -> { r \in FullRecords : r.id = Str(http[Len(http)].path[4])
                                                    /\ r.ttl = Num(1) /\ r.type = Str("A") }
    [] call = "delete.del" -> { [id |-> Str(http[Len(http)].path[4])] }

Envelopes(call, http) ==
  { [success |-> Bool(TRUE), result |-> r, errors |-> <<>>] : r \in ResultsFor(call, http) }
  \cup { [success |-> Bool(TRUE), result |-> Null, errors |-> <<>>] }
  \cup { [success |-> Bool(FALSE), result |-> Null, errors |-> e] :
           e \in { <<>>, <<"code 7003">> } }
  \cup { [success |-> Absent, result |-> Null, errors |-> <<>>] }

CfCommandLines ==
  { [cmd |-> "list", args |-> <<>>], [cmd |-> "help", args |-> <<>>] }
  \cup { [cmd |-> "add", args |-> <<"A", "test.domain.com", "1.1.1.1">> \o t] :
           t \in { <<>>, <<"true">>, <<"false">> } }
  \cup { [cmd |-> "delete", args |-> <<i>>] : i \in RecordIds }
  \cup { [cmd |-> "update", args |-> <<i>> \o a] :
           i \in RecordIds, a \in SeqsUpTo(PatchArgs, MaxPatchArgs) }

InitCf ==
  /\ ReposIdle
  /\ ScIdle
  /\ GhIdle
  /\ cfEnv \in BOOLEAN
  /\ \E c \in CfCommandLines : cfCmd = c.cmd /\ cfArgs = c.args
  /\ cfPc = "start"
  /\ cfCall = "none"
  /\ cfPatch = <<>>
  /\ cfHttp = <<>>
  /\ cfEnvelopes = <<>>
  /\ cfReturned = 0
  /\ cfOut = <<>>
  /\ cfErr = <<>>
  /\ cfExit = Absent

\* An uncaught error: the script ends with status 1.
CfCrash == cfPc' = "crashed" /\ cfCall' = "none" /\ cfExit' = Num(1)

\* cfRequest up to its await: the request is issued.
CfSend(call, req) ==
  /\ cfHttp' = Append(cfHttp, req)
  /\ cfCall' = call
  /\ cfPc' = "awaiting"

\* The start of the script: the check of the environment, then main() up to
\* the first await.
CfMain ==
  /\ cfPc = "start"
  /\ IF ~cfEnv
     THEN CfCrash /\ UNCHANGED <<cfPatch, cfHttp, cfOut>>
     ELSE CASE cfCmd = "list" ->
                 /\ CfSend("list.get", Request("GET", ZonePath, Absent))
                 /\ UNCHANGED <<cfPatch, cfOut, cfExit>>
            [] cfCmd = "add" ->
                 /\ CfSend("add.post",
                      Request("POST", ZonePath,
                        JSONstringify(Spread(
                          [ttl |-> Num(1), proxied |-> Bool(FALSE)],
                          [ type |-> Str(cfArgs[1]), name |-> Str(cfArgs[2]),
                            content |-> Str(cfArgs[3]),
                            proxied |-> Bool(Len(cfArgs) >= 4 /\ cfArgs[4] = "true") ]))))
                 /\ UNCHANGED <<cfPatch, cfOut, cfExit>>
            [] cfCmd = "update" ->
                 /\ cfPatch' = ParsePatch(Tail(cfArgs))
                 /\ CfSend("update.get", Request("GET", RecordPath(Head(cfArgs)), Absent))
                 /\ UNCHANGED <<cfOut, cfExit>>
            [] cfCmd = "delete" ->
                 /\ CfSend("delete.del", Request("DELETE", RecordPath(cfArgs[1]), Absent))
                 /\ UNCHANGED <<cfPatch, cfOut, cfExit>>
            [] OTHER ->
                 /\ cfOut' = <<"Usage:">>
                 /\ cfPc' = "done"
                 /\ cfExit' = Num(0)
                 /\ UNCHANGED <<cfPatch, cfHttp, cfCall>>
  /\ UNCHANGED <<cfEnv, cfCmd, cfArgs, cfEnvelopes, cfReturned, cfErr>>
  /\ UNCHANGED notCf

\* fetch rejects, or the body is not JSON: nothing catches it.
CfNetworkFailure ==
  /\ cfPc = "awaiting"
  /\ CfCrash
  /\ UNCHANGED <<cfEnv, cfCmd, cfArgs, cfPatch, cfHttp, cfEnvelopes, cfReturned, cfOut, cfErr>>
  /\ UNCHANGED notCf

\* cfRequest on an envelope it refuses: the errors are printed and the
\* process exits with status 1.
CfRefused ==
  /\ cfPc = "awaiting"
  /\ \E env \in Envelopes(cfCall, cfHttp) :
       /\ cfRequestExits(env)
       /\ cfEnvelopes' = Append(cfEnvelopes, env)
       /\ cfErr' = <<"Cloudflare API Error:", env.errors>>
  /\ cfPc' = "exited"
  /\ cfExit' = Num(1)
  /\ cfCall' = "none"
  /\ UNCHANGED <<cfEnv, cfCmd, cfArgs, cfPatch, cfHttp, cfReturned, cfOut>>
  /\ UNCHANGED notCf

\* What the caller does with the result cfRequest returned, up to its next
\* await or its end.  Reading a property of a null result throws.
CfContinue(res) ==
  CASE cfCall = "list.get" ->
         IF res = Null THEN CfCrash /\ UNCHANGED <<cfHttp, cfOut>>
         ELSE /\ cfOut' = <<"ID TYPE NAME CONTENT TTL PROXY", "----">>
                          \o [i \in DOMAIN res.list |-> res.list[i].id.str]
              /\ cfPc' = "done" /\ cfCall' = "none" /\ cfExit' = Num(0)
              /\ UNCHANGED cfHttp
    [] cfCall = "add.post" ->
         IF res = Null THEN CfCrash /\ UNCHANGED <<cfHttp, cfOut>>
         ELSE /\ cfOut' = <<"Record added:", res.id.str>>
              /\ cfPc' = "done" /\ cfCall' = "none" /\ cfExit' = Num(0)
              /\ UNCHANGED cfHttp
    [] cfCall = "update.get" ->
         IF res = Null THEN CfCrash /\ UNCHANGED <<cfHttp, cfOut>>
         ELSE /\ CfSend("update.put",
                   Request("PUT", RecordPath(Head(cfArgs)),
                           JSONstringify(Payload(res, cfPatch))))
              /\ UNCHANGED <<cfOut, cfExit>>
    [] cfCall = "update.put" ->
         IF res = Null THEN CfCrash /\ UNCHANGED <<cfHttp, cfOut>>
         ELSE /\ cfOut' = <<"Record updated:", res.id.str>>
              /\ cfPc' = "done" /\ cfCall' = "none" /\ cfExit' = Num(0)
              /\ UNCHANGED cfHttp
    [] cfCall = "delete.del" ->
         /\ cfOut' = <<"Record deleted:", cfArgs[1]>>
         /\ cfPc' = "done" /\ cfCall' = "none" /\ cfExit' = Num(0)
         /\ UNCHANGED cfHttp

\* cfRequest on an envelope it accepts: json.result goes to the caller,
\* which runs on.
CfReturned ==
  /\ cfPc = "awaiting"
  /\ \E env \in Envelopes(cfCall, cfHttp) :
       /\ ~cfRequestExits(env)
       /\ cfEnvelopes' = Append(cfEnvelopes, env)
       /\ CfContinue(env.result)
  /\ cfReturned' = cfReturned + 1
  /\ UNCHANGED <<cfEnv, cfCmd, cfArgs, cfPatch, cfErr>>
  /\ UNCHANGED notCf

NextCf ==
  \/ CfMain
  \/ CfNetworkFailure
  \/ CfRefused
  \/ CfReturned

SpecCf == InitCf /\ [][NextCf]_vars

(***************************************************************************)
(* Properties of the DNS wrapper.                                          *)
(***************************************************************************)
\* C3: when the envelope cfRequest parsed has success = false, the errors
\* are printed, the process has ended with status 1, that call returned
\* nothing to its caller, and nothing happened after it: the refused
\* envelope is the last one, no further request was issued and no record
\* id was printed.
C3_FailedEnvelopeEndsProcess ==
  \A i \in DOMAIN cfEnvelopes :
    cfEnvelopes[i].success = Bool(FALSE) =>
      /\ i = Len(cfEnvelopes)
      /\ Len(cfHttp) = i
      /\ cfReturned = i - 1
      /\ cfPc = "exited"
      /\ cfExit # Absent /\ cfExit # Num(0)
      /\ cfErr = <<"Cloudflare API Error:", cfEnvelopes[i].errors>>
      /\ cfOut = <<>>

\* The replacement call of an update was refused with a non-empty error
\* list, after the fetch had succeeded.
C3_Witness ==
  /\ cfCmd = "update"
  /\ Len(cfEnvelopes) = 2
  /\ cfEnvelopes[1].success = Bool(TRUE)
  /\ cfEnvelopes[2].success = Bool(FALSE)
  /\ cfEnvelopes[2].errors # <<>>
  /\ cfPc = "exited"

\* What updateRecord fetched, and the id it was called with.
Fetched == cfEnvelopes[1].result
UpdateId == Head(cfArgs)

\* updateRecord's requests are a GET of the record and then, only after the
\* GET was answered with success, one PUT of the same record; a refused GET
\* is followed by no request.
GetThenOnePut ==
  /\ Len(cfHttp) <= 2
  /\ Len(cfHttp) >= 1 => cfHttp[1] = Request("GET", RecordPath(UpdateId), Absent)
  /\ Len(cfHttp) = 2 =>
       /\ Len(cfEnvelopes) >= 1
       /\ cfEnvelopes[1].success = Bool(TRUE)
       /\ cfHttp[2].method = "PUT"
       /\ cfHttp[2].path = RecordPath(UpdateId)
  /\ (Len(cfEnvelopes) >= 1 /\ cfEnvelopes[1].success # Bool(TRUE)) => Len(cfHttp) = 1
  /\ cfPc = "done" => Len(cfHttp) = 2

Chars == {"\n", "x"}
Texts == SeqsUpTo(Chars, MaxStrLen)
IsSpace(c) == c \in {" ", "\t", "\n"}

RECURSIVE trimStart(_)
trimStart(t) == IF t # <<>> /\ IsSpace(Head(t)) THEN trimStart(Tail(t)) ELSE t

RECURSIVE trimEnd(_)
trimEnd(t) ==
  IF t # <<>> /\ IsSpace(t[Len(t)]) THEN trimEnd(SubSeq(t, 1, Len(t) - 1)) ELSE t

\* String.prototype.trim
trim(t) == trimEnd(trimStart(t))

\* A string that is truthy: given and not empty
TruthyString(v) == v # Absent /\ v # Str("")

\* run(cmd, input) up to its first await: Bun.spawn with stdin "pipe" when
\* the input is truthy and "inherit" otherwise, then the input written to
\* the pipe and the pipe closed.
RunSpawn(cmd, input) ==
  /\ runCmd' = cmd
  /\ runInput' = input
  /\ procStdin' = IF TruthyString(input) THEN "pipe" ELSE "inherit"
  /\ procWritten' = IF TruthyString(input) THEN input ELSE Absent
  /\ procClosed' = TruthyString(input)
  /\ runPc' = "spawned"
  /\ runOut' = Absent
  /\ runErr' = Absent
  /\ runCode' = Absent
  /\ runValue' = Absent
  /\ runError' = Absent
  /\ ghLive' = ghLive + 1

\* The end of run() with the trim left out
RunResultUntrimmed(out, err, code) ==
  IF code # 0 THEN [threw |-> IF err # <<>> THEN err ELSE out]
  ELSE [returned |-> out]

\* if (code !== 0) throw new Error(err || out); return out.trim()
RunResult(out, err, code) ==
  IF code # 0 THEN [threw |-> IF err # <<>> THEN err ELSE out]
  ELSE [returned |-> trim(out)]

RunUnchanged == UNCHANGED runVars

\* const out = await new Response(proc.stdout).text()
RunReadOut ==
  /\ runPc = "spawned"
  /\ \E t \in Texts : runOut' = Str(t)
  /\ runPc' = "outRead"
  /\ UNCHANGED <<runCmd, runInput, procStdin, procWritten, procClosed, runErr,
                 runCode, runValue, runError>>
  /\ UNCHANGED menuVars
  /\ UNCHANGED notGh

\* const err = await new Response(proc.stderr).text()
RunReadErr ==
  /\ runPc = "outRead"
  /\ \E t \in Texts : runErr' = Str(t)
  /\ runPc' = "errRead"
  /\ UNCHANGED <<runCmd, runInput, procStdin, procWritten, procClosed, runOut,
                 runCode, runValue, runError>>
  /\ UNCHANGED menuVars
  /\ UNCHANGED notGh

\* const code = await proc.exited, and the end of run()
RunExited ==
  /\ runPc = "errRead"
  /\ \E code \in 0..MaxExitCode :
       LET r == RunResult(runOut.str, runErr.str, code)
       IN /\ runCode' = Num(code)
          /\ IF "threw" \in DOMAIN r
             THEN runPc' = "threw" /\ runError' = Str(r.threw) /\ runValue' = Absent
             ELSE runPc' = "returned" /\ runValue' = Str(r.returned) /\ runError' = Absent
  /\ ghLive' = ghLive - 1
  /\ UNCHANGED <<runCmd, runInput, procStdin, procWritten, procClosed, runOut, runErr>>
  /\ UNCHANGED <<ghCmd, ghArgs, ghPc, ghChoice, ghAnswers, ghStep, ghOut, ghEnd, ghExit>>
  /\ UNCHANGED notGh

\* input.includes("/"), for the repository names tried
IncludesSlash(name) == name \in {"o/r", "login/name"}

\* `${data.owner.login}/${data.name}`
ResolvedRepo == "login/name"

ViewCmd(name) == <<"gh", "repo", "view", name, "--json", "owner,name">>
ListCmd ==
  <<"gh", "repo", "list", "--limit", "1000", "--json",
    "name,visibility,url,updatedAt,createdAt,pushedAt">>

\* `--${visibility}`
Flag(visibility) ==
  CASE visibility = "public" -> "--public"
    [] visibility = "private" -> "--private"
    [] OTHER -> "--"

\* a || b on strings
OrElse(a, b) == IF a = "" THEN b ELSE a

\* The menu: the lines it serves, and the questions each asks first.
MenuKeys == {"0", "1", "2", "3", "4", "5", "6", "7", "8", "9", "10"}
Prompts(choice) ==
  CASE choice = "2" -> <<"Repo name: ", "Visibility (public/private): ">>
    [] choice = "3" -> <<"owner/repo: ">>
    [] choice = "4" -> <<"Repo (owner/name): ", "Secret key: ", "Secret value: ">>
    [] choice = "5" -> <<"Repo (owner/name): ", "Variable key: ", "Variable value: ">>
    [] choice \in {"6", "7"} -> <<"Repo (owner/name): ">>
    [] choice = "10" -> <<"Last how many months?: ">>
    [] OTHER -> <<>>

\* The operations that go through resolveRepo.
Resolves(choice) == choice \in {"4", "5", "6", "7"}

\* The operations that JSON.parse what run() returned.
Parses(choice) == choice \in {"1", "6", "7", "8", "9", "10", "list"}

\* The command of the operation with the menu's branches 2 and 3 mixed up
MainCmdMixedUp(choice, answers, repo) ==
  CASE choice = "3" -> <<"gh", "repo", "create", answers[1],
                         Flag(OrElse("", "private")), "--confirm">>
    [] choice \in {"2", "add"} -> <<"gh", "repo", "delete", answers[1], "--yes">>
    [] choice = "4" -> <<"gh", "secret", "set", answers[2], "--repo", repo>>
    [] choice = "5" -> <<"gh", "variable", "set", answers[2], "--repo", repo,
                         "--body", answers[3]>>
    [] choice = "6" -> <<"gh", "secret", "list", "--repo", repo, "--json", "name,updatedAt">>
    [] choice = "7" -> <<"gh", "variable", "list", "--repo", repo, "--json",
                         "name,value,updatedAt">>
    [] OTHER -> ListCmd

\* The argument vector of the gh wrapper each operation calls: gh.repo.list,
\* gh.repo.add, gh.repo.delete, gh.secret.set, gh.variable.set,
\* gh.secret.list, gh.variable.list.
MainCmd(choice, answers, repo) ==
  CASE choice = "2" -> <<"gh", "repo", "create", answers[1],
                         Flag(OrElse(answers[2], "private")), "--confirm">>
    [] choice = "add" -> <<"gh", "repo", "create", answers[1], Flag(answers[2]), "--confirm">>
    [] choice = "3" -> <<"gh", "repo", "delete", answers[1], "--yes">>
    [] choice = "4" -> <<"gh", "secret", "set", answers[2], "--repo", repo>>
    [] choice = "5" -> <<"gh", "variable", "set", answers[2], "--repo", repo,
                         "--body", answers[3]>>
    [] choice = "6" -> <<"gh", "secret", "list", "--repo", repo, "--json", "name,updatedAt">>
    [] choice = "7" -> <<"gh", "variable", "list", "--repo", repo, "--json",
                         "name,value,updatedAt">>
    [] OTHER -> ListCmd

\* gh.secret.set alone hands run() an input: the value.
MainInput(choice, answers) == IF choice = "4" THEN Str(answers[3]) ELSE Absent

\* What the operation prints when its command has succeeded.
Printed(choice) ==
  CASE choice \in {"2", "add"} -> "Repo created"
    [] choice = "3" -> "Repo deleted"
    [] choice = "4" -> "Secret saved"
    [] choice = "5" -> "Variable saved"
    [] OTHER -> "console.table"

\* The gh wrapper called, up to the first await of run(): resolveRepo runs
\* `gh repo view` first when the repository name has no "/".
BeginCall(choice, answers) ==
  /\ IF Resolves(choice) /\ ~IncludesSlash(answers[1])
     THEN RunSpawn(ViewCmd(answers[1]), Absent) /\ ghStep' = "resolve"
     ELSE /\ RunSpawn(MainCmd(choice, answers, IF Resolves(choice) THEN answers[1] ELSE ""),
                      MainInput(choice, answers))
          /\ ghStep' = "main"
  /\ ghPc' = "running"

MenuMode == ghCmd = Absent \/ ghCmd = Str("menu")

\* One turn of the loop up to its await: the menu and the question.
ShowMenu(before) ==
  /\ ghOut' = before \o <<"menu", "Choose: ">>
  /\ ghPc' = "choose"
  /\ ghChoice' = "none"
  /\ ghAnswers' = <<>>
  /\ ghStep' = "none"

\* An error nothing catches: the script ends with status 1.
GhCrash(why) == ghPc' = "crashed" /\ ghExit' = Num(1) /\ ghEnd' = why

\* The lines typed at the menu, and the answers typed at each question.
ChoiceLines == MenuKeys \cup {"11", ""}
Answers(choice, n) ==
  CASE Prompts(choice)[n] = "Repo (owner/name): " -> {"o/r", "r"}
    [] Prompts(choice)[n] = "owner/repo: " -> {"o/r"}
    [] Prompts(choice)[n] = "Repo name: " -> {"r"}
    [] Prompts(choice)[n] = "Visibility (public/private): " -> {"", "public"}
    [] Prompts(choice)[n] = "Secret value: " -> {"", "s3cret"}
    [] Prompts(choice)[n] = "Variable value: " -> {"", "v"}
    [] Prompts(choice)[n] = "Last how many months?: " -> {"3"}
    [] OTHER -> {"KEY"}

GhCommandLines ==
  { [cmd |-> Absent, args |-> <<>>], [cmd |-> Str("menu"), args |-> <<>>],
    [cmd |-> Str("list"), args |-> <<>>], [cmd |-> Str("help"), args |-> <<>>],
    [cmd |-> Str("add"), args |-> <<>>], [cmd |-> Str("add"), args |-> <<"r">>],
    [cmd |-> Str("add"), args |-> <<"r", "public">>] }

InitGh ==
  /\ ReposIdle
  /\ ScIdle
  /\ CfIdle
  /\ \E c \in GhCommandLines : ghCmd = c.cmd /\ ghArgs = c.args
  /\ ghPc = "start"
  /\ ghChoice = "none"
  /\ ghAnswers = <<>>
  /\ ghStep = "none"
  /\ ghOut = <<>>
  /\ ghLive = 0
  /\ ghEnd = "none"
  /\ ghExit = Absent
  /\ RunIdle

\* The argument parser at the end of the file, up to its first await.
GhStart ==
  /\ ghPc = "start"
  /\ IF MenuMode
     THEN ShowMenu(<<>>) /\ RunUnchanged /\ UNCHANGED <<ghLive, ghEnd, ghExit>>
     ELSE CASE ghCmd = Str("list") ->
                 /\ ghChoice' = "list"
                 /\ BeginCall("list", <<>>)
                 /\ UNCHANGED <<ghAnswers, ghOut, ghEnd, ghExit>>
            [] ghCmd = Str("add") ->
                 IF ghArgs = <<>>
                 THEN /\ GhCrash("Repo name required")
                      /\ RunUnchanged
                      /\ UNCHANGED <<ghChoice, ghAnswers, ghStep, ghOut, ghLive>>
                 ELSE /\ ghChoice' = "add"
                      /\ ghAnswers' = <<ghArgs[1], IF Len(ghArgs) >= 2 THEN ghArgs[2]
                                                   ELSE "private">>
                      /\ BeginCall("add", ghAnswers')
                      /\ UNCHANGED <<ghOut, ghEnd, ghExit>>
            [] OTHER ->
                 /\ ghOut' = <<"Usage:">>
                 /\ ghPc' = "done"
                 /\ ghExit' = Num(0)
                 /\ ghEnd' = "completed"
                 /\ RunUnchanged
                 /\ UNCHANGED <<ghChoice, ghAnswers, ghStep, ghLive>>
  /\ UNCHANGED <<ghCmd, ghArgs>>
  /\ UNCHANGED notGh

\* A line arrives at "Choose: ": the if statements of the loop body up to
\* the first await of the one whose test passes; "0" ends the process; a
\* line no test passes for brings the menu again.
GhChoose ==
  /\ ghPc = "choose"
  /\ \E line \in ChoiceLines :
       CASE line = "0" ->
              /\ ghChoice' = line
              /\ ghPc' = "exited" /\ ghExit' = Num(0) /\ ghEnd' = "choice 0"
              /\ RunUnchanged
              /\ UNCHANGED <<ghAnswers, ghStep, ghOut, ghLive>>
         [] line \in MenuKeys \ {"0"} /\ Prompts(line) = <<>> ->
              /\ ghChoice' = line
              /\ BeginCall(line, <<>>)
              /\ ghOut' = <<>>
              /\ UNCHANGED <<ghAnswers, ghEnd, ghExit>>
         [] line \in MenuKeys \ {"0"} /\ Prompts(line) # <<>> ->
              /\ ghChoice' = line
              /\ ghPc' = "prompt"
              /\ ghOut' = <<Prompts(line)[1]>>
              /\ RunUnchanged
              /\ UNCHANGED <<ghAnswers, ghStep, ghLive, ghEnd, ghExit>>
         [] OTHER ->
              /\ ShowMenu(<<>>)
              /\ RunUnchanged
              /\ UNCHANGED <<ghLive, ghEnd, ghExit>>
  /\ UNCHANGED <<ghCmd, ghArgs>>
  /\ UNCHANGED notGh

\* A line arrives at a question of the operation: the next question, or
\* after the last one the gh wrapper.
GhAnswer ==
  /\ ghPc = "prompt"
  /\ \E a \in Answers(ghChoice, Len(ghAnswers) + 1) :
       /\ ghAnswers' = Append(ghAnswers, a)
       /\ IF Len(ghAnswers) + 1 < Len(Prompts(ghChoice))
          THEN /\ ghOut' = <<Prompts(ghChoice)[Len(ghAnswers) + 2]>>
               /\ RunUnchanged
               /\ UNCHANGED <<ghPc, ghStep, ghLive>>
          ELSE /\ BeginCall(ghChoice, ghAnswers')
               /\ ghOut' = <<>>
  /\ UNCHANGED <<ghCmd, ghArgs, ghChoice, ghEnd, ghExit>>
  /\ UNCHANGED notGh

\* Standard input ends while ask() waits: no "data" event comes, nothing
\* is left to run and the process ends (the script awaits nothing at its
\* top level, so the status is 0).
GhStdinEnds ==
  /\ ghPc \in {"choose", "prompt"}
  /\ ghPc' = "ended"
  /\ ghExit' = Num(0)
  /\ ghEnd' = "stdin ended"
  /\ RunUnchanged
  /\ UNCHANGED <<ghCmd, ghArgs, ghChoice, ghAnswers, ghStep, ghOut, ghLive>>
  /\ UNCHANGED notGh

\* JSON.parse of what run() returned: it throws on text that is not JSON,
\* as the empty text is; of any other text here either may be the case.
JSONparseThrows(value) == IF value.str = <<>> THEN {TRUE} ELSE {TRUE, FALSE}

\* The caller of run() runs on to its next await.  An error run() threw,
\* or one JSON.parse throws, is caught nowhere.  After resolveRepo the gh
\* wrapper's own command is run; after that the result is printed, and in
\* the menu the loop comes round.
GhResume ==
  /\ ghPc = "running"
  /\ runPc \in {"returned", "threw"}
  /\ IF runPc = "threw"
     THEN /\ GhCrash("command failed")
          /\ RunUnchanged
          /\ UNCHANGED <<ghChoice, ghAnswers, ghStep, ghOut, ghLive>>
     ELSE \E throws \in (IF ghStep = "resolve" \/ Parses(ghChoice)
                         THEN JSONparseThrows(runValue) ELSE {FALSE}) :
            IF throws
            THEN /\ GhCrash("parse failed")
                 /\ RunUnchanged
                 /\ UNCHANGED <<ghChoice, ghAnswers, ghStep, ghOut, ghLive>>
            ELSE IF ghStep = "resolve"
            THEN /\ RunSpawn(MainCmd(ghChoice, ghAnswers, ResolvedRepo),
                             MainInput(ghChoice, ghAnswers))
                 /\ ghStep' = "main"
                 /\ UNCHANGED <<ghPc, ghChoice, ghAnswers, ghOut, ghEnd, ghExit>>
            ELSE IF MenuMode
            THEN /\ ShowMenu(<<Printed(ghChoice)>>)
                 /\ RunUnchanged
                 /\ UNCHANGED <<ghLive, ghEnd, ghExit>>
            ELSE /\ ghOut' = <<Printed(ghChoice)>>
                 /\ ghPc' = "done"
                 /\ ghExit' = Num(0)
                 /\ ghEnd' = "completed"
                 /\ RunUnchanged
                 /\ UNCHANGED <<ghChoice, ghAnswers, ghStep, ghLive>>
  /\ UNCHANGED <<ghCmd, ghArgs>>
  /\ UNCHANGED notGh

NextGh ==
  \/ GhStart
  \/ GhChoose
  \/ GhAnswer
  \/ GhStdinEnds
  \/ RunReadOut
  \/ RunReadErr
  \/ RunExited
  \/ GhResume

SpecGh == InitGh /\ [][NextGh]_vars

(***************************************************************************)
(* Properties of run(), gh.secret.set and the menu.                        *)
(***************************************************************************)
Settled == runPc \in {"returned", "threw"}

\* t is what is left of out when the white space at its two ends is removed
IsTrimOf(t, out) ==
  \E i \in 0..Len(out) : \E j \in 0..(Len(out) - i) :
    /\ \A k \in 1..i : IsSpace(out[k])
    /\ \A k \in (Len(out) - j + 1)..Len(out) : IsSpace(out[k])
    /\ t = SubSeq(out, i + 1, Len(out) - j)
    /\ t # <<>> => ~IsSpace(t[1]) /\ ~IsSpace(t[Len(t)])

\* C5: run(cmd, input) returns or fails only after the child has exited and
\* both of its output streams have been read to the end; on exit status 0 it
\* returns the captured standard output with the white space around it
\* removed; on any other status it returns nothing and fails with an error
\* whose message is the captured standard-error text, or the captured
\* standard-output text when the standard-error text is empty.
C5_RunReturnsTrimmedOrFails ==
  /\ Settled => runOut # Absent /\ runErr # Absent /\ runCode # Absent /\ ghLive = 0
  /\ ~Settled /\ runPc # "idle" => runValue = Absent /\ runError = Absent /\ ghLive = 1
  /\ runPc = "returned" =>
       /\ runCode = Num(0)
       /\ runError = Absent
       /\ runValue # Absent
       /\ IsTrimOf(runValue.str, runOut.str)
  /\ runPc = "threw" =>
       /\ runCode # Num(0)
       /\ runValue = Absent
       /\ runErr.str # <<>> => runError = runErr
       /\ runErr.str = <<>> => runError = runOut

\* run() has returned a standard output that had white space around it.
C5_Witness ==
  /\ runPc = "returned"
  /\ runValue.str # <<>>
  /\ Len(runValue.str) < Len(runOut.str)

SecretSetSpawned ==
  /\ runPc # "idle"
  /\ Len(runCmd) >= 3
  /\ runCmd[2] = "secret"
  /\ runCmd[3] = "set"

\* C6: for every call gh.secret.set(repo, key, value), the empty value
\* included, the executable receives the value on its input stream, which
\* is then closed, and the value is no element of the argument vector.
C6_SecretValueOnInputStream ==
  SecretSetSpawned =>
    /\ procStdin = "pipe"
    /\ procWritten = Str(ghAnswers[3])
    /\ procClosed
    /\ \A k \in 1..Len(runCmd) : runCmd[k] # ghAnswers[3]

Terminal == ghPc \in {"exited", "crashed", "ended", "done"}

MenuShown ==
  /\ Len(ghOut) >= 2
  /\ ghOut[Len(ghOut) - 1] = "menu"
  /\ ghOut[Len(ghOut)] = "Choose: "

\* The gh subcommand of the operation each line of the menu stands for.
Operation(choice) ==
  CASE choice = "2" -> <<"repo", "create">>
    [] choice = "3" -> <<"repo", "delete">>
    [] choice = "4" -> <<"secret", "set">>
    [] choice = "5" -> <<"variable", "set">>
    [] choice = "6" -> <<"secret", "list">>
    [] choice = "7" -> <<"variable", "list">>
    [] OTHER -> <<"repo", "list">>

\* C10 as stated: the menu is shown whenever a line is awaited, at most one
\* external command is outstanding, and the only way the loop ends is the
\* choice "0" with exit status 0.
C10_AsStated ==
  MenuMode =>
    /\ ghLive <= 1
    /\ ghPc = "choose" => MenuShown
    /\ Terminal => ghChoice = "0" /\ ghExit = Num(0)

\* C10: the menu is a single-threaded loop that in each turn prints the
\* menu, waits for one line and runs at most the one operation that line
\* stands for, with at most one external command outstanding at any time.
\* The loop ends on the choice "0" (exit status 0), and it also ends when
\* an external command of the chosen operation fails or its output cannot
\* be parsed (the error is caught nowhere, the exit status is not 0) and
\* when standard input ends while a line is awaited; after any other
\* choice, recognised or not, whose operation completes, the menu is shown
\* again and the next line is awaited.
C10_MenuLoop ==
  MenuMode /\ ghPc # "start" =>
    /\ ghLive <= 1
    /\ ghPc \in {"choose", "prompt", "running", "exited", "crashed", "ended"}
    /\ ghPc = "choose" => MenuShown /\ ghLive = 0 /\ ghChoice = "none"
    /\ ghPc \in {"prompt", "running"} => ghChoice \in MenuKeys \ {"0"}
    /\ ghPc = "prompt" => ghLive = 0
    /\ ghPc = "running" =>
         \/ <<runCmd[2], runCmd[3]>> = Operation(ghChoice)
         \/ Resolves(ghChoice) /\ <<runCmd[2], runCmd[3]>> = <<"repo", "view">>
    /\ ghPc = "exited" => ghChoice = "0" /\ ghExit = Num(0) /\ ghEnd = "choice 0"
    /\ ghPc = "crashed" =>
         /\ ghExit # Num(0)
         /\ ghChoice \in MenuKeys \ {"0"}
         /\ \/ ghEnd = "command failed" /\ runPc = "threw"
            \/ ghEnd = "parse failed" /\ runPc = "returned"
    /\ ghPc = "ended" => ghEnd = "stdin ended"

\* The loop has ended on choice "3" because `gh repo delete` failed.
C10_Witness ==
  /\ MenuMode
  /\ ghPc = "crashed"
  /\ ghEnd = "command failed"
  /\ ghChoice = "3"
  /\ runCmd[3] = "delete"

(***************************************************************************)
(* SpecRepos: the list helpers applied to one array.  One behaviour calls  *)
(* filterByVisibility once, or sortByUpdated once, or the two date filters *)
(* (in either order) with the same month count at the same time.           *)
(***************************************************************************)
DateFilters == {"filterByMonthsAgo", "filterOlderThanMonths"}

InitRepos ==
  /\ ScIdle
  /\ CfIdle
  /\ GhIdle
  /\ repos \in SeqsUpTo(Repo, MaxRepos)
  /\ repos0 = repos
  /\ months = Absent
  /\ now = NowDay
  /\ calls = {}
  /\ arg = "none"
  /\ result = <<>>
  /\ within = <<>>
  /\ older = <<>>

CallFilterByVisibility ==
  /\ calls = {}
  /\ \E v \in {"public", "private"} :
       /\ result' = filterByVisibility(repos, IF v = "public" THEN public ELSE private)
       /\ arg' = v
  /\ calls' = {"filterByVisibility"}
  /\ UNCHANGED <<repos, repos0, months, now, within, older>>
  /\ UNCHANGED notRepos

\* The month count of the first date filter called is the one both use.
MonthsFor(m) == IF months = Absent THEN m \in 0..MaxMonths ELSE Num(m) = months

CallFilterByMonthsAgo ==
  /\ calls \subseteq DateFilters
  /\ "filterByMonthsAgo" \notin calls
  /\ \E m \in 0..MaxMonths :
       /\ MonthsFor(m)
       /\ months' = Num(m)
       /\ within' = filterByMonthsAgo(repos, m, now)
  /\ calls' = calls \cup {"filterByMonthsAgo"}
  /\ UNCHANGED <<repos, repos0, now, arg, result, older>>
  /\ UNCHANGED notRepos

CallFilterOlderThanMonths ==
  /\ calls \subseteq DateFilters
  /\ "filterOlderThanMonths" \notin calls
  /\ \E m \in 0..MaxMonths :
       /\ MonthsFor(m)
       /\ months' = Num(m)
       /\ older' = filterOlderThanMonths(repos, m, now)
  /\ calls' = calls \cup {"filterOlderThanMonths"}
  /\ UNCHANGED <<repos, repos0, now, arg, result, within>>
  /\ UNCHANGED notRepos

\* [...repos].sort(...): the copy is sorted, the argument is left alone
SortCopy(order) ==
  /\ \E out \in SortOutcomes(repos, order) : result' = out
  /\ repos' = repos

\* order: "asc" | "desc" = "desc"
CallSortByUpdated ==
  /\ calls = {}
  /\ \E given \in {"asc", "desc", "default"} :
       /\ SortCopy(IF given = "default" THEN "desc" ELSE given)
       /\ arg' = given
  /\ calls' = {"sortByUpdated"}
  /\ UNCHANGED <<repos0, months, now, within, older>>
  /\ UNCHANGED notRepos

NextRepos ==
  \/ CallFilterByVisibility
  \/ CallFilterByMonthsAgo
  \/ CallFilterOlderThanMonths
  \/ CallSortByUpdated

SpecRepos == InitRepos /\ [][NextRepos]_vars

(***************************************************************************)
(* Properties of the list helpers.                                         *)
(***************************************************************************)
\* The k-th smallest index of a set of indices, and the entries of s at the
\* indices I, in their order in s.
KthIndex(I, k) == CHOOSE i \in I : Cardinality({j \in I : j < i}) = k - 1
EntriesAt(s, I) == [k \in 1..Cardinality(I) |-> s[KthIndex(I, k)]]

Range(s) == { s[i] : i \in DOMAIN s }
Count(s, x) == Cardinality({ i \in DOMAIN s : s[i] = x })
HasUpdatedAt(r) == r.updatedAt # Absent

\* T - m*30*86400000 ms, in days
LimitDay == now - months.num * 30

WithinIdx == { i \in DOMAIN repos0 :
                 HasUpdatedAt(repos0[i]) /\ repos0[i].updatedAt.iso >= LimitDay }
DatedIdx == { i \in DOMAIN repos0 : HasUpdatedAt(repos0[i]) }

\* C7: with limit = T - m*30 days, filterByMonthsAgo returns exactly the
\* entries with updatedAt >= limit, filterOlderThanMonths exactly the other
\* entries that have an updatedAt; once both have run, every entry that has
\* an updatedAt is in exactly one of the two results and an entry without
\* updatedAt is in neither.
C7_DateWindowPartition ==
  /\ "filterByMonthsAgo" \in calls => within = EntriesAt(repos0, WithinIdx)
  /\ "filterOlderThanMonths" \in calls => older = EntriesAt(repos0, DatedIdx \ WithinIdx)
  /\ calls = DateFilters =>
       \A i \in DOMAIN repos0 :
         IF HasUpdatedAt(repos0[i])
         THEN (repos0[i] \in Range(within)) # (repos0[i] \in Range(older))
         ELSE repos0[i] \notin Range(within) /\ repos0[i] \notin Range(older)
  /\ calls \subseteq DateFilters => repos = repos0

\* Both date filters have run on an array with an entry on the limit, an
\* older one and one without updatedAt.
C7_Witness ==
  /\ calls = DateFilters
  /\ within # <<>> /\ older # <<>>
  /\ \E i \in DOMAIN repos0 : ~HasUpdatedAt(repos0[i])
  /\ \E i \in DOMAIN within : within[i].updatedAt.iso = LimitDay

\* Two characters are the same letter, whatever their case.
SameLetter(c, d) ==
  \/ c = d
  \/ \E i \in DOMAIN UpperChars : {c, d} = {UpperChars[i], LowerChars[i]}

EqualIgnoringCase(a, b) ==
  /\ Len(a) = Len(b)
  /\ \A i \in DOMAIN a : SameLetter(a[i], b[i])

Requested == IF arg = "public" THEN public ELSE private

VisibleIdx == { i \in DOMAIN repos0 :
                  /\ repos0[i].visibility # Absent
                  /\ EqualIgnoringCase(repos0[i].visibility.str, Requested.str) }

\* C8: filterByVisibility returns, in their original order, exactly the
\* entries whose visibility equals the requested one when case is ignored
\* (an entry with no visibility is left out), and leaves its argument as it
\* was.
C8_VisibilityFilter ==
  calls = {"filterByVisibility"} =>
    /\ result = EntriesAt(repos0, VisibleIdx)
    /\ repos = repos0

\* The public entries of an array that also holds a private entry and one
\* with no visibility were asked for, and an entry spelled in upper case was
\* returned.
C8_Witness ==
  /\ calls = {"filterByVisibility"}
  /\ arg = "public"
  /\ result # <<>>
  /\ \E i \in DOMAIN result : result[i].visibility # public
  /\ \E i \in DOMAIN repos0 : repos0[i].visibility = Absent
  /\ \E i \in DOMAIN repos0 : repos0[i].visibility = Str(<<"P","r","i","v","a","t","e">>)

Order == IF arg = "asc" THEN "asc" ELSE "desc"

IsPermutation(a, b) ==
  /\ Len(a) = Len(b)
  /\ \A x \in Range(a) \cup Range(b) : Count(a, x) = Count(b, x)

\* Among the entries that have a timestamp, the timestamps run in the order.
Monotone(s, order) ==
  \A i, j \in DOMAIN s :
    (i < j /\ HasUpdatedAt(s[i]) /\ HasUpdatedAt(s[j])) =>
      IF order = "asc" THEN s[i].updatedAt.iso <= s[j].updatedAt.iso
                       ELSE s[i].updatedAt.iso >= s[j].updatedAt.iso

\* The entries of one timestamp come in the order they had in the input.
KeepsTies(out, in) ==
  \A t \in Stamps \ {Absent} :
    LET Same(r) == r.updatedAt = t
    IN SelectSeq(out, Same) = SelectSeq(in, Same)

SortedAsClaimed ==
  /\ IsPermutation(result, repos0)
  /\ Monotone(result, Order)
  /\ KeepsTies(result, repos0)
  /\ repos = repos0

====
